---- MODULE Spec2Model ----
(***************************************************************************)
(* Telemetry scraper: the scrape / fetch-metric / append pipeline in its   *)
(* two variants.                                                           *)
(*   local      : src/local-test-two-networks.js  (runScript, two networks *)
(*                scraped concurrently, no retry)                          *)
(*   serverless : src/unnamed/part_000 (default handler wrapped in         *)
(*                runWithRetry, one network)                               *)
(* Every awaited call on an external service (browser, page, chain client, *)
(* HTTP API, spreadsheet) either resolves or rejects; an async function is *)
(* cut into one action per await.                                          *)
(***************************************************************************)
EXTENDS Integers, Sequences, FiniteSets, TLC

\* ------------------------------------------------------------------ bounds
\* pledged-space values the metric service may report: 1..MaxPledged
MaxPledged == 2

\* --------------------------------------------------------------- constants
MAX_RETRIES == 3
\* for (let i = 0; i < 3; i++) around the click
MaxClickAttempts == 3

\* --------------------------------------------------------------- JS values
Null == [t |-> "null", v |-> 0]
Undefined == [t |-> "undefined", v |-> 0]
NaN == [t |-> "NaN", v |-> 0]
Num(n) == [t |-> "number", v |-> n]
Str(n) == [t |-> "string", v |-> n]

Fields ==
  {"nodeCount", "subspaceNodeCount", "spaceAcresNodeCount",
   "linuxNodeCount", "windowsNodeCount", "macosNodeCount"}

\* the five fields read through getTextBySelector / getTextByXPath
TextFields == Fields \ {"nodeCount"}

\* ------------------------------------------------------------- DOM content
\* textContent of an element, as a sequence of characters
Texts == { <<" ", "7", "x">>, <<"x">> }

NoElement == [present |-> FALSE, text |-> <<>>]
Elements == {NoElement} \cup { [present |-> TRUE, text |-> s] : s \in Texts }

\* the two per-client rows and the three per-OS rows of the details panel
ClientFields == {"subspaceNodeCount", "spaceAcresNodeCount"}
OsFields == {"linuxNodeCount", "windowsNodeCount", "macosNodeCount"}

\* the rendered page at extraction time: what each lookup finds. The node
\* count, the client table and the OS table each render independently; the
\* rows of one table render alike
Doms ==
  { [f \in Fields |-> IF f = "nodeCount" THEN a ELSE IF f \in ClientFields THEN b ELSE c] :
      a \in Elements, b \in Elements, c \in Elements }

EmptyDom == [f \in Fields |-> NoElement]

DigitValue(c) ==
  CASE c = "0" -> 0 [] c = "1" -> 1 [] c = "2" -> 2 [] c = "3" -> 3
    [] c = "4" -> 4 [] c = "5" -> 5 [] c = "6" -> 6 [] c = "7" -> 7
    [] c = "8" -> 8 [] c = "9" -> 9 [] OTHER -> -1

IsSpace(c) == c = " "

RECURSIVE TrimStart(_)
TrimStart(s) ==
  IF s # <<>> /\ IsSpace(Head(s)) THEN TrimStart(Tail(s)) ELSE s

RECURSIVE TrimEnd(_)
TrimEnd(s) ==
  IF s # <<>> /\ IsSpace(s[Len(s)]) THEN TrimEnd(SubSeq(s, 1, Len(s) - 1)) ELSE s

\* String.prototype.trim
Trim(s) == TrimEnd(TrimStart(s))

RECURSIVE ReadDigits(_, _)
ReadDigits(s, acc) ==
  IF s # <<>> /\ DigitValue(Head(s)) >= 0
  THEN ReadDigits(Tail(s), 10 * acc + DigitValue(Head(s)))
  ELSE acc

\* parseInt on a string: skip leading white space, read the leading digits,
\* NaN when there is none
ParseIntText(s) ==
  LET r == TrimStart(s)
  IN IF r # <<>> /\ DigitValue(Head(r)) >= 0 THEN Num(ReadDigits(r, 0)) ELSE NaN

\* parseInt on what a lookup returned: null is first converted to the
\* string "null", which has no leading digit
parseInt(x) == IF x = Null THEN ParseIntText(<<"n", "u", "l", "l">>) ELSE ParseIntText(x.v)

\* getTextBySelector / getTextByXPath: element ? element.textContent.trim() : null
getText(e) == IF e.present THEN Str(Trim(e.text)) ELSE Null

\* truthiness of a looked-up text: null and the empty string are falsy
Truthy(x) == x # Null /\ x.v # <<>>

\* page.evaluate returns its result by value through the browser's JSON
\* encoding, which has no NaN: a NaN inside the returned object arrives as null
SerializeValue(x) == IF x = NaN THEN Null ELSE x

Serialize(o) == [f \in DOMAIN o |-> SerializeValue(o[f])]

\* ------------------------------------------------------- field extraction
\* local variant, inside the page: nodeCount guards the missing element, the
\* other five apply parseInt to the lookup result directly
LocalExtract(dom) ==
  [f \in Fields |->
     IF f = "nodeCount"
     THEN (IF dom[f].present THEN ParseIntText(dom[f].text) ELSE Null)
     ELSE parseInt(getText(dom[f]))]

\* serverless variant, inside the page: every field guards a missing lookup
ServerlessExtract(dom) ==
  [f \in Fields |->
     IF f = "nodeCount"
     THEN (IF dom[f].present THEN ParseIntText(dom[f].text) ELSE Null)
     ELSE (IF Truthy(getText(dom[f])) THEN parseInt(getText(dom[f])) ELSE Null)]

NoStats == [f \in Fields |-> Undefined]

\* ------------------------------------------------------------ sheet rows
Timestamp(n) == [t |-> "time", v |-> n]

\* SheetRow with the node count and the pledged space in each other's column
SheetRowSwapped(ts, s, p) ==
  << ts, p, s.nodeCount, s.subspaceNodeCount, s.spaceAcresNodeCount,
     s.linuxNodeCount, s.windowsNodeCount, s.macosNodeCount >>

\* values: [[timestamp, nodeCount, spacePledged, subspace, spaceAcres, linux, windows, macos]]
SheetRow(ts, s, p) ==
  << ts, s.nodeCount, p, s.subspaceNodeCount, s.spaceAcresNodeCount,
     s.linuxNodeCount, s.windowsNodeCount, s.macosNodeCount >>

\* chronosSpacePledged.toString()
BigIntToString(x) == Str(x.v)

\* local variant: if (stats.nodeCount !== null)
LocalShouldAppend(s) == s.nodeCount # Null

\* serverless variant: the append is unconditional
HandlerShouldAppend(s) == TRUE

\* ------------------------------------------------------------ control
\* for (let i = 0; i < retries; i++)
LoopContinues(k) == k < MAX_RETRIES

\* ShouldRethrow giving up one attempt early
ShouldRethrowEarly(k) == k = MAX_RETRIES - 2

\* if (i === retries - 1) throw error
ShouldRethrow(k) == k = MAX_RETRIES - 1

\* NeedsClose with the test negated: if (!browser)
NeedsCloseNegated(b) == b = "undefined"

\* finally { if (browser) await browser.close() }
NeedsClose(b) == b # "undefined"

\* serverless catch block: logs and rethrows
HandlerCatch(e) == e

\* local catch block: logs only
RunScriptCatch(e) == "none"

\* waitForElement without its try/catch: the timeout propagates
waitForElementNoCatch(appeared) == [threw |-> ~appeared, value |-> appeared]

\* waitForElement: a timeout or rejection of waitForSelector is caught
waitForElement(appeared) == [threw |-> FALSE, value |-> appeared]

LocalNets == {"Chronos", "mainnet"}
ServerlessNets == {"Sheet1"}
NetsOf(v) == IF v = "local" THEN LocalNets ELSE ServerlessNets

\* AllFulfilled resolving on the first task that returns (Promise.any)
AnyFulfilled(f, S) == \E n \in S : f[n] = "done"

\* Promise.all over the scrape tasks / fetch tasks
AnyRejected(f, S) == \E n \in S : f[n] = "failed"
AllFulfilled(f, S) == \A n \in S : f[n] = "done"

\* =================================================================== state
VARIABLES
  variant,     \* "local" (runScript) or "serverless" (handler in runWithRetry)
  pc,          \* position of the main async function
  i,           \* runWithRetry's loop index
  attempts,    \* executions of the unit of work started so far
  failures,    \* executions of the unit of work that threw
  browser,     \* the attempt's `browser` variable: "undefined", "open", "closed"
  launches,    \* puppeteer.launch calls that resolved
  closes,      \* browser.close calls made
  exc,         \* exception in flight in the current attempt ("none" if none)
  failedStep,  \* first step of the current attempt that threw ("none" if none)
  task,        \* per network: the scrape (scrapePageData / inline scrape)
  stats,       \* per network: the snapshot returned by the scrape
  fetch,       \* per network: position of getSpacePledgedData
  pledged,     \* per network: the fetched pledged-space value
  rows,        \* per named range: the rows appended, in order
  result,      \* the entry point's promise: "pending", "resolved", "rejected"
  fetchLog,    \* serverless: per attempt that reached the fetch, 0 (threw) or the value
  otherFailed  \* some step other than the metric fetch has thrown

vars ==
  << variant, pc, i, attempts, failures, browser, launches, closes, exc,
     failedStep, task, stats, fetch, pledged, rows, result, fetchLog, otherFailed >>

Nets == NetsOf(variant)

IdleTask ==
  [pc |-> "idle", tries |-> 0, clickSuccess |-> FALSE, marker |-> "unknown",
   err |-> "none", domEmpty |-> FALSE]

Init ==
  /\ variant \in {"local", "serverless"}
  /\ pc = IF variant = "local" THEN "setup" ELSE "loop"
  /\ i = 0
  /\ attempts = IF variant = "local" THEN 1 ELSE 0
  /\ failures = 0
  /\ browser = "undefined"
  /\ launches = 0
  /\ closes = 0
  /\ exc = "none"
  /\ failedStep = "none"
  /\ task = [n \in Nets |-> IdleTask]
  /\ stats = [n \in Nets |-> NoStats]
  /\ fetch = [n \in Nets |-> "idle"]
  /\ pledged = [n \in Nets |-> Undefined]
  /\ rows = [n \in Nets |-> <<>>]
  /\ result = "pending"
  /\ fetchLog = <<>>
  /\ otherFailed = FALSE

\* an awaited call on the browser or one of its pages resolves or rejects
\* while the browser is open, and rejects once the browser has been closed
PageOutcomes == IF browser = "open" THEN {TRUE, FALSE} ELSE {FALSE}

\* ============================================================ serverless
\* a step inside the handler's try block throws: catch (log, rethrow), then finally
HandlerThrow(step) ==
  /\ exc' = HandlerCatch(step)
  /\ failedStep' = step
  /\ otherFailed' = (otherFailed \/ step # "fetch")
  /\ pc' = "finally"

\* runWithRetry: loop head, calls fn
RetryLoop ==
  /\ variant = "serverless" /\ pc = "loop"
  /\ IF LoopContinues(i)
     THEN /\ attempts' = attempts + 1
          /\ pc' = "setup"
          /\ browser' = "undefined"
          /\ exc' = "none"
          /\ failedStep' = "none"
          /\ task' = [n \in Nets |-> IdleTask]
          /\ stats' = [n \in Nets |-> NoStats]
          /\ pledged' = [n \in Nets |-> Undefined]
          /\ UNCHANGED result
     ELSE /\ result' = "resolved"
          /\ pc' = "done"
          /\ UNCHANGED << attempts, browser, exc, failedStep, task, stats, pledged >>
  /\ UNCHANGED << variant, i, failures, launches, closes, fetch, rows, fetchLog, otherFailed >>

\* req.body, JWT from the environment, sheets client
HandlerSetup ==
  /\ variant = "serverless" /\ pc = "setup"
  /\ \E ok \in BOOLEAN :
       IF ok THEN pc' = "launch" /\ UNCHANGED << exc, failedStep, otherFailed >>
       ELSE HandlerThrow("setup")
  /\ UNCHANGED << variant, i, attempts, failures, browser, launches, closes,
                  task, stats, fetch, pledged, rows, result, fetchLog >>

HandlerLaunch ==
  /\ variant = "serverless" /\ pc = "launch"
  /\ \E ok \in BOOLEAN :
       IF ok
       THEN /\ browser' = "open" /\ launches' = launches + 1 /\ pc' = "newPage"
            /\ UNCHANGED << exc, failedStep, otherFailed >>
       ELSE HandlerThrow("launch") /\ UNCHANGED << browser, launches >>
  /\ UNCHANGED << variant, i, attempts, failures, closes,
                  task, stats, fetch, pledged, rows, result, fetchLog >>

HandlerNewPage ==
  /\ variant = "serverless" /\ pc = "newPage"
  /\ \E ok \in PageOutcomes :
       IF ok THEN pc' = "goto" /\ UNCHANGED << exc, failedStep, otherFailed >>
       ELSE HandlerThrow("newPage")
  /\ UNCHANGED << variant, i, attempts, failures, browser, launches, closes,
                  task, stats, fetch, pledged, rows, result, fetchLog >>

\* page.goto; the inner catch logs and rethrows
HandlerGoto ==
  /\ variant = "serverless" /\ pc = "goto"
  /\ \E ok \in PageOutcomes :
       IF ok THEN pc' = "click" /\ UNCHANGED << exc, failedStep, otherFailed >>
       ELSE HandlerThrow("goto")
  /\ UNCHANGED << variant, i, attempts, failures, browser, launches, closes,
                  task, stats, fetch, pledged, rows, result, fetchLog >>

\* wait 5 s, then one page.evaluate that clicks the element if it is found
HandlerClick ==
  /\ variant = "serverless" /\ pc = "click"
  /\ \E out \in {"Element clicked", "Element not found", "throw"} :
       /\ task' = [task EXCEPT !["Sheet1"].tries = @ + 1,
                               !["Sheet1"].clickSuccess = (out = "Element clicked"),
                               !["Sheet1"].err = IF out = "throw" THEN "click" ELSE @]
       /\ IF out # "throw"
          THEN pc' = "extract" /\ UNCHANGED << exc, failedStep, otherFailed >>
          ELSE HandlerThrow("click")
  /\ UNCHANGED << variant, i, attempts, failures, browser, launches, closes,
                  stats, fetch, pledged, rows, result, fetchLog >>

\* wait 2 s, then page.evaluate reading the six fields
HandlerExtract ==
  /\ variant = "serverless" /\ pc = "extract"
  /\ \/ \E dom \in Doms :
          /\ stats' = [stats EXCEPT !["Sheet1"] = Serialize(ServerlessExtract(dom))]
          /\ task' = [task EXCEPT !["Sheet1"].domEmpty = (dom = EmptyDom),
                                  !["Sheet1"].pc = "done"]
          /\ pc' = "fetch"
          /\ UNCHANGED << exc, failedStep, otherFailed >>
     \/ /\ HandlerThrow("extract")
        /\ task' = [task EXCEPT !["Sheet1"].err = "extract"]
        /\ UNCHANGED stats
  /\ UNCHANGED << variant, i, attempts, failures, browser, launches, closes,
                  fetch, pledged, rows, result, fetchLog >>

\* axios.get(...).data.spacePledged
HandlerFetch ==
  /\ variant = "serverless" /\ pc = "fetch"
  /\ \/ \E v \in 1..MaxPledged :
          /\ pledged' = [pledged EXCEPT !["Sheet1"] = Num(v)]
          /\ fetchLog' = Append(fetchLog, v)
          /\ pc' = "append"
          /\ UNCHANGED << exc, failedStep, otherFailed >>
     \/ /\ HandlerThrow("fetch")
        /\ fetchLog' = Append(fetchLog, 0)
        /\ UNCHANGED pledged
  /\ UNCHANGED << variant, i, attempts, failures, browser, launches, closes,
                  task, stats, fetch, rows, result >>

\* sheets.spreadsheets.values.append on range 'Sheet1', then the Response is built
HandlerAppend ==
  /\ variant = "serverless" /\ pc = "append"
  /\ IF HandlerShouldAppend(stats["Sheet1"])
     THEN \E ok \in BOOLEAN :
            IF ok
            THEN /\ rows' = [rows EXCEPT !["Sheet1"] =
                       Append(@, SheetRow(Timestamp(attempts), stats["Sheet1"], pledged["Sheet1"]))]
                 /\ pc' = "finally"
                 /\ UNCHANGED << exc, failedStep, otherFailed >>
            ELSE HandlerThrow("append") /\ UNCHANGED rows
     ELSE pc' = "finally" /\ UNCHANGED << rows, exc, failedStep, otherFailed >>
  /\ UNCHANGED << variant, i, attempts, failures, browser, launches, closes,
                  task, stats, fetch, pledged, result, fetchLog >>

\* finally { if (browser) await browser.close() }: a rejected close replaces
\* whatever the try/catch completed with
HandlerFinally ==
  /\ variant = "serverless" /\ pc = "finally"
  /\ IF NeedsClose(browser)
     THEN \E ok \in BOOLEAN :
            /\ closes' = closes + 1
            /\ browser' = "closed"
            /\ exc' = IF ok THEN exc ELSE "close"
            /\ failedStep' = IF ok \/ failedStep # "none" THEN failedStep ELSE "close"
            /\ otherFailed' = (otherFailed \/ ~ok)
     ELSE UNCHANGED << closes, browser, exc, failedStep, otherFailed >>
  /\ pc' = "settled"
  /\ UNCHANGED << variant, i, attempts, failures, launches,
                  task, stats, fetch, pledged, rows, result, fetchLog >>

\* runWithRetry: `return await fn()` or the catch around it
RetrySettle ==
  /\ variant = "serverless" /\ pc = "settled"
  /\ IF exc = "none"
     THEN /\ result' = "resolved" /\ pc' = "done"
          /\ UNCHANGED << i, failures >>
     ELSE /\ failures' = failures + 1
          /\ IF ShouldRethrow(i)
             THEN result' = "rejected" /\ pc' = "done" /\ UNCHANGED i
             ELSE i' = i + 1 /\ pc' = "loop" /\ UNCHANGED result
  /\ UNCHANGED << variant, attempts, browser, launches, closes, exc, failedStep,
                  task, stats, fetch, pledged, rows, fetchLog, otherFailed >>

\* ================================================================= local
\* a step inside runScript's try block throws: catch (log only), then finally
RunScriptThrow(step) ==
  /\ exc' = RunScriptCatch(step)
  /\ failedStep' = step
  /\ otherFailed' = (otherFailed \/ step # "fetch")
  /\ pc' = "finally"

\* JWT from the environment, sheets client
RunScriptSetup ==
  /\ variant = "local" /\ pc = "setup"
  /\ \E ok \in BOOLEAN :
       IF ok THEN pc' = "launch" /\ UNCHANGED << exc, failedStep, otherFailed >>
       ELSE RunScriptThrow("setup")
  /\ UNCHANGED << variant, i, attempts, failures, browser, launches, closes,
                  task, stats, fetch, pledged, rows, result, fetchLog >>

RunScriptLaunch ==
  /\ variant = "local" /\ pc = "launch"
  /\ \E ok \in BOOLEAN :
       IF ok
       THEN /\ browser' = "open" /\ launches' = launches + 1 /\ pc' = "newPage"
            /\ UNCHANGED << exc, failedStep, otherFailed >>
       ELSE RunScriptThrow("launch") /\ UNCHANGED << browser, launches >>
  /\ UNCHANGED << variant, i, attempts, failures, closes,
                  task, stats, fetch, pledged, rows, result, fetchLog >>

\* Promise.all([newPage, newPage]); then both scrapePageData calls start and
\* run up to their first await (page.goto)
RunScriptNewPages ==
  /\ variant = "local" /\ pc = "newPage"
  /\ \E ok \in PageOutcomes :
       IF ok
       THEN /\ pc' = "scrapeAll"
            /\ task' = [n \in Nets |-> [IdleTask EXCEPT !.pc = "goto"]]
            /\ UNCHANGED << exc, failedStep, otherFailed >>
       ELSE RunScriptThrow("newPage") /\ UNCHANGED task
  /\ UNCHANGED << variant, i, attempts, failures, browser, launches, closes,
                  stats, fetch, pledged, rows, result, fetchLog >>

\* scrapePageData: page.goto
ScrapeGoto(n) ==
  /\ variant = "local" /\ task[n].pc = "goto"
  /\ \E ok \in PageOutcomes :
       task' = [task EXCEPT ![n].pc = IF ok THEN "wait" ELSE "failed",
                            ![n].err = IF ok THEN @ ELSE "goto"]
  /\ UNCHANGED << variant, pc, i, attempts, failures, browser, launches, closes, exc,
                  failedStep, stats, fetch, pledged, rows, result, fetchLog, otherFailed >>

\* scrapePageData: waitForElement(page, '.Chains-chain-selected')
ScrapeWaitMarker(n) ==
  /\ variant = "local" /\ task[n].pc = "wait"
  /\ \E appeared \in PageOutcomes :
       LET r == waitForElement(appeared)
       IN task' = [task EXCEPT
                     ![n].pc = IF r.threw THEN "failed" ELSE "screenshot",
                     ![n].err = IF r.threw THEN "wait" ELSE @,
                     ![n].marker = IF r.value THEN "present" ELSE "timeout"]
  /\ UNCHANGED << variant, pc, i, attempts, failures, browser, launches, closes, exc,
                  failedStep, stats, fetch, pledged, rows, result, fetchLog, otherFailed >>

\* scrapePageData: 10 s pause, then page.screenshot
ScrapeScreenshot(n) ==
  /\ variant = "local" /\ task[n].pc = "screenshot"
  /\ \E ok \in PageOutcomes :
       task' = [task EXCEPT ![n].pc = IF ok THEN "click" ELSE "failed",
                            ![n].err = IF ok THEN @ ELSE "screenshot"]
  /\ UNCHANGED << variant, pc, i, attempts, failures, browser, launches, closes, exc,
                  failedStep, stats, fetch, pledged, rows, result, fetchLog, otherFailed >>

\* scrapePageData: one iteration of the click loop. A page.evaluate that
\* resolves (element clicked or not found) sets clickSuccess and breaks; one that
\* rejects is logged and, after 2 s, the loop goes on
ScrapeClick(n) ==
  /\ variant = "local" /\ task[n].pc = "click"
  /\ task[n].tries < MaxClickAttempts
  /\ \E ok \in PageOutcomes :
       task' = [task EXCEPT
                  ![n].tries = @ + 1,
                  ![n].clickSuccess = ok,
                  ![n].pc = IF ok \/ task[n].tries + 1 >= MaxClickAttempts
                            THEN "extract" ELSE "click"]
  /\ UNCHANGED << variant, pc, i, attempts, failures, browser, launches, closes, exc,
                  failedStep, stats, fetch, pledged, rows, result, fetchLog, otherFailed >>

\* scrapePageData: 5 s pause, then page.evaluate reading the six fields
ScrapeExtract(n) ==
  /\ variant = "local" /\ task[n].pc = "extract"
  /\ \/ /\ browser = "open"
        /\ \E dom \in Doms :
             /\ stats' = [stats EXCEPT ![n] = Serialize(LocalExtract(dom))]
             /\ task' = [task EXCEPT ![n].pc = "done", ![n].domEmpty = (dom = EmptyDom)]
     \/ /\ task' = [task EXCEPT ![n].pc = "failed", ![n].err = "extract"]
        /\ UNCHANGED stats
  /\ UNCHANGED << variant, pc, i, attempts, failures, browser, launches, closes, exc,
                  failedStep, fetch, pledged, rows, result, fetchLog, otherFailed >>

TaskPc == [n \in Nets |-> task[n].pc]

\* await Promise.all([scrapePageData(...), scrapePageData(...)]): rejects as
\* soon as one task has failed, resolves when both have returned; then both
\* getSpacePledgedData calls start
RunScriptAwaitScrapes ==
  /\ variant = "local" /\ pc = "scrapeAll"
  /\ \/ /\ AnyRejected(TaskPc, Nets)
        /\ RunScriptThrow("scrape")
        /\ UNCHANGED fetch
     \/ /\ AllFulfilled(TaskPc, Nets)
        /\ pc' = "fetchAll"
        /\ fetch' = [n \in Nets |-> "activate"]
        /\ UNCHANGED << exc, failedStep, otherFailed >>
  /\ UNCHANGED << variant, i, attempts, failures, browser, launches, closes,
                  task, stats, pledged, rows, result, fetchLog >>

\* getSpacePledgedData: activate({ networkId })
FetchActivate(n) ==
  /\ variant = "local" /\ fetch[n] = "activate"
  /\ \E ok \in BOOLEAN : fetch' = [fetch EXCEPT ![n] = IF ok THEN "query" ELSE "failed"]
  /\ UNCHANGED << variant, pc, i, attempts, failures, browser, launches, closes, exc,
                  failedStep, task, stats, pledged, rows, result, fetchLog, otherFailed >>

\* getSpacePledgedData: spacePledged(api); a failure is logged and rethrown
FetchQuery(n) ==
  /\ variant = "local" /\ fetch[n] = "query"
  /\ \/ \E v \in 1..MaxPledged :
          /\ fetch' = [fetch EXCEPT ![n] = "done"]
          /\ pledged' = [pledged EXCEPT ![n] = Num(v)]
     \/ /\ fetch' = [fetch EXCEPT ![n] = "failed"]
        /\ UNCHANGED pledged
  /\ UNCHANGED << variant, pc, i, attempts, failures, browser, launches, closes, exc,
                  failedStep, task, stats, rows, result, fetchLog, otherFailed >>

\* await Promise.all([getSpacePledgedData('chronos'), getSpacePledgedData('mainnet')])
RunScriptAwaitFetches ==
  /\ variant = "local" /\ pc = "fetchAll"
  /\ \/ /\ AnyRejected(fetch, Nets)
        /\ RunScriptThrow("fetch")
     \/ /\ AllFulfilled(fetch, Nets)
        /\ pc' = "appendChronos"
        /\ UNCHANGED << exc, failedStep, otherFailed >>
  /\ UNCHANGED << variant, i, attempts, failures, browser, launches, closes,
                  task, stats, fetch, pledged, rows, result, fetchLog >>

\* the guarded append of one network's row, then on to `after`
RunScriptAppend(n, after) ==
  IF LocalShouldAppend(stats[n])
  THEN \E ok \in BOOLEAN :
         IF ok
         THEN /\ rows' = [rows EXCEPT ![n] =
                    Append(@, SheetRow(Timestamp(attempts), stats[n], BigIntToString(pledged[n])))]
              /\ pc' = after
              /\ UNCHANGED << exc, failedStep, otherFailed >>
         ELSE RunScriptThrow("append") /\ UNCHANGED rows
  ELSE pc' = after /\ UNCHANGED << rows, exc, failedStep, otherFailed >>

RunScriptAppendChronos ==
  /\ variant = "local" /\ pc = "appendChronos"
  /\ RunScriptAppend("Chronos", "appendMainnet")
  /\ UNCHANGED << variant, i, attempts, failures, browser, launches, closes,
                  task, stats, fetch, pledged, result, fetchLog >>

RunScriptAppendMainnet ==
  /\ variant = "local" /\ pc = "appendMainnet"
  /\ RunScriptAppend("mainnet", "finally")
  /\ UNCHANGED << variant, i, attempts, failures, browser, launches, closes,
                  task, stats, fetch, pledged, result, fetchLog >>

\* finally { if (browser) await browser.close() }, then runScript's promise settles
RunScriptFinally ==
  /\ variant = "local" /\ pc = "finally"
  /\ IF NeedsClose(browser)
     THEN \E ok \in BOOLEAN :
            /\ closes' = closes + 1
            /\ browser' = "closed"
            /\ exc' = IF ok THEN exc ELSE "close"
            /\ failedStep' = IF ok \/ failedStep # "none" THEN failedStep ELSE "close"
            /\ otherFailed' = (otherFailed \/ ~ok)
            /\ result' = IF ok /\ exc = "none" THEN "resolved" ELSE "rejected"
            /\ failures' = IF ok /\ exc = "none" THEN failures ELSE failures + 1
     ELSE /\ result' = IF exc = "none" THEN "resolved" ELSE "rejected"
          /\ failures' = IF exc = "none" THEN failures ELSE failures + 1
          /\ UNCHANGED << closes, browser, exc, failedStep, otherFailed >>
  /\ pc' = "done"
  /\ UNCHANGED << variant, i, attempts, launches,
                  task, stats, fetch, pledged, rows, fetchLog >>

Next ==
  \/ RetryLoop
  \/ HandlerSetup
  \/ HandlerLaunch
  \/ HandlerNewPage
  \/ HandlerGoto
  \/ HandlerClick
  \/ HandlerExtract
  \/ HandlerFetch
  \/ HandlerAppend
  \/ HandlerFinally
  \/ RetrySettle
  \/ RunScriptSetup
  \/ RunScriptLaunch
  \/ RunScriptNewPages
  \/ \E n \in Nets : ScrapeGoto(n)
  \/ \E n \in Nets : ScrapeWaitMarker(n)
  \/ \E n \in Nets : ScrapeScreenshot(n)
  \/ \E n \in Nets : ScrapeClick(n)
  \/ \E n \in Nets : ScrapeExtract(n)
  \/ RunScriptAwaitScrapes
  \/ \E n \in Nets : FetchActivate(n)
  \/ \E n \in Nets : FetchQuery(n)
  \/ RunScriptAwaitFetches
  \/ RunScriptAppendChronos
  \/ RunScriptAppendMainnet
  \/ RunScriptFinally

Spec == Init /\ [][Next]_vars

\* ================================================================ claims
Min(a, b) == IF a < b THEN a ELSE b

Terminal == {"idle", "done", "failed"}

\* C1: no row is ever appended for a network whose scraped nodeCount is
\* null, in either variant.
C1_NoAppendWithNullNodeCount ==
  \A n \in Nets : \A k \in 1..Len(rows[n]) : rows[n][k][2] # Null

\* C2 as stated: when runWithRetry has finished, fn was called exactly
\* min(k, MAX_RETRIES) times, k the number of consecutive failures, and the
\* error is re-raised only after MAX_RETRIES failures.
C2_CallsEqualMinFailures ==
  (variant = "serverless" /\ pc = "done") =>
    /\ attempts = Min(failures, MAX_RETRIES)
    /\ (result = "rejected" => failures = MAX_RETRIES)

\* C2 amended: fn is called min(k + 1, MAX_RETRIES) times (one call, plus one
\* per failure that still has a retry left), every call so far but the one in
\* progress has failed, and the error is re-raised exactly when MAX_RETRIES
\* calls have failed.
C2_CallsEqualMinFailuresPlusOne ==
  variant = "serverless" =>
    /\ attempts <= MAX_RETRIES
    /\ failures <= attempts
    /\ result = "rejected" => (failures = MAX_RETRIES /\ attempts = MAX_RETRIES)
    /\ pc = "done" =>
         /\ attempts = Min(failures + 1, MAX_RETRIES)
         /\ (result = "rejected" <=> failures = MAX_RETRIES)
         /\ (result = "resolved" <=> failures < MAX_RETRIES)

\* C2 witness: one failure, then success on the second call.
C2_Witness ==
  variant = "serverless" /\ pc = "done" /\ failures = 1 /\ attempts = 2
    /\ result = "resolved"

\* C3 as stated: a finished invocation, all retry attempts included, has
\* acquired the browser once and released it exactly once (stated for the
\* invocations that acquired a browser at all).
C3_OneLaunchOneClosePerInvocation ==
  (pc = "done" /\ launches >= 1) => (launches = 1 /\ closes = 1)

\* C3 amended: per attempt. Every browser that was launched has close called
\* on it exactly once before its attempt ends, on every exit path; at most
\* one launched browser is awaiting its close; an attempt launches at most
\* one browser, and one that fails before the launch releases nothing.
C3_EveryLaunchClosedOncePerAttempt ==
  /\ launches \in {closes, closes + 1}
  /\ (launches = closes + 1) <=> (browser = "open")
  /\ launches <= attempts
  /\ pc \in {"settled", "loop", "done"} => launches = closes
  /\ variant = "local" => launches <= 1

\* C3 witness: a serverless invocation whose three attempts each launched and
\* closed a browser.
C3_Witness ==
  variant = "serverless" /\ pc = "done" /\ launches = MAX_RETRIES
    /\ closes = MAX_RETRIES /\ result = "rejected"

\* the fatal step failures the pipeline names: navigation / scrape, metric
\* fetch, append
PipelineSteps == {"goto", "click", "extract", "scrape", "fetch", "append"}

\* C4: an invocation whose last attempt hit a fatal step failure ends with
\* its promise rejected, in either variant.
C4_FatalFailurePropagates ==
  (pc = "done" /\ failedStep \in PipelineSteps) => result = "rejected"

\* C5: a local scrape whose marker wait timed out is not failed by the wait,
\* by the click or by the missing elements (it can only fail where a later
\* browser call itself rejects: the screenshot or the extracting evaluate),
\* and when none of the looked-up elements exists it returns a snapshot
\* whose six fields are all null.
C5_MarkerTimeoutYieldsAllNull ==
  variant = "local" =>
    \A n \in Nets :
      /\ task[n].err # "wait"
      /\ (task[n].marker = "timeout" /\ task[n].pc = "failed")
           => task[n].err \in {"screenshot", "extract"}
      /\ (task[n].pc = "done" /\ task[n].marker = "timeout" /\ task[n].domEmpty)
           => \A f \in Fields : stats[n][f] = Null

\* C5 witness: a scrape that returned after a marker timeout on an empty page.
C5_Witness ==
  variant = "local" /\ \E n \in Nets :
    task[n].pc = "done" /\ task[n].marker = "timeout" /\ task[n].domEmpty

\* C6: serverless, metric fetch throws in attempts 1 and 2 and succeeds in
\* attempt 3, nothing else fails: the invocation resolves, and exactly one
\* row was appended, by attempt 3, carrying the attempt-3 value.
C6_ThirdAttemptValueWins ==
  ( /\ variant = "serverless" /\ pc = "done"
    /\ Len(fetchLog) = 3 /\ fetchLog[1] = 0 /\ fetchLog[2] = 0 /\ fetchLog[3] # 0
    /\ ~otherFailed )
  => /\ result = "resolved"
     /\ exc = "none"
     /\ Len(rows["Sheet1"]) = 1
     /\ rows["Sheet1"][1][1] = Timestamp(3)
     /\ rows["Sheet1"][1][3] = Num(fetchLog[3])

\* C6 witness: the scenario itself has run to the end.
C6_Witness ==
  /\ variant = "serverless" /\ pc = "done"
  /\ Len(fetchLog) = 3 /\ fetchLog[1] = 0 /\ fetchLog[2] = 0 /\ fetchLog[3] # 0
  /\ ~otherFailed

\* C7: order of the steps of an attempt. A row is appended only with the
\* browser open and every scrape and every metric fetch of the attempt
\* completed; close is called only from the finally block, never together
\* with an append; a browser is launched, and an attempt started, only when
\* every browser launched before has had its close call.
C7_LinearOrder ==
  [][ /\ (rows' # rows) =>
            /\ browser = "open" /\ browser' = "open"
            /\ \A n \in Nets : task[n].pc = "done" /\ pledged[n] # Undefined
            /\ variant = "local" => \A n \in Nets : fetch[n] = "done"
      /\ (closes' # closes) => (pc = "finally" /\ rows' = rows)
      /\ (launches' # launches) => (launches = closes /\ pc = "launch")
      /\ (attempts' # attempts) => (launches = closes /\ browser # "open")
      /\ launches' - closes' <= 1
    ]_vars

\* C7 witness: a serverless retry attempt that appended its row and closed
\* its browser.
C7_Witness ==
  variant = "serverless" /\ attempts = 2 /\ closes = 2
    /\ rows["Sheet1"] # <<>> /\ rows["Sheet1"][1][1] = Timestamp(2)

\* C8: in either variant the click is tried at most three times and a click
\* that fails on every try never fails the scrape.
C8_ClickFailureNonFatal ==
  /\ \A n \in Nets : task[n].tries <= MaxClickAttempts /\ task[n].err # "click"
  /\ failedStep # "click"

\* C9: local variant, once the browser has been closed no scrape task is
\* still running.
C9_CloseAfterBothScrapes ==
  (variant = "local" /\ browser = "closed") =>
    \A n \in Nets : task[n].pc \in Terminal

\* C10: each named range receives at most one row per invocation.
C10_OneRowPerRange ==
  \A n \in Nets : Len(rows[n]) <= 1

====
